---- MODULE Spec2Model ----
(***************************************************************************)
(* Windows sandbox level / mode resolution of                             *)
(* codex-slim/core/src/windows_sandbox.rs.                                 *)
(*                                                                         *)
(* The resolvers are pure functions.  Init draws their inputs (a merged   *)
(* Config, or a raw ConfigToml document with a ConfigProfile) and each    *)
(* action applies one function of the file to the drawn inputs, leaving   *)
(* the returned value in ret.                                              *)
(***************************************************************************)
EXTENDS Naturals, FiniteSets, Sequences, TLC

VARIABLES config, cfg, profile, pc, ret

vars == <<config, cfg, profile, pc, ret>>

(* ---------------------------------------------------------------- bounds *)

\* Number of feature keys other than the three legacy sandbox keys that a
\* [features] table (of the profile or of the document) may hold.
MaxOtherKeys == 1

\* Number of features other than the two sandbox features that the merged
\* Features set may have enabled.
MaxOtherFeatures == 1

(* ----------------------------------------------------------- value types *)

\* Option<T>
None == [some |-> FALSE]
Some(v) == [some |-> TRUE, val |-> v]

\* enum WindowsSandboxModeToml
WindowsSandboxModeToml == {"Elevated", "Unelevated"}

\* enum WindowsSandboxLevel
WindowsSandboxLevel == {"Disabled", "RestrictedToken", "Elevated"}

\* enum Feature: the two sandbox features and the unrelated ones
WindowsSandboxElevated == "WindowsSandboxElevated"
WindowsSandbox == "WindowsSandbox"
OtherFeatures == {"OtherFeature" \o ToString(i) : i \in 1..MaxOtherFeatures}
Feature == {WindowsSandboxElevated, WindowsSandbox} \cup OtherFeatures

\* Feature::key()
key(feature) ==
    CASE feature = WindowsSandboxElevated -> "windows_sandbox_elevated"
      [] feature = WindowsSandbox -> "windows_sandbox"
      [] OTHER -> feature

\* the literal key of the retired experimental toggle
ExperimentalKey == "enable_experimental_windows_sandbox"

LegacyKeys == {key(WindowsSandboxElevated), key(WindowsSandbox), ExperimentalKey}

OtherKeys == {"other_feature_" \o ToString(i) : i \in 1..MaxOtherKeys}

\* BTreeMap<String, bool> over the given keys: any subset of them is present
Entries(keys) == UNION {[d -> BOOLEAN] : d \in SUBSET keys}

\* Option<FeaturesToml>
FeaturesTomlOpt(keys) == {None} \cup {Some([entries |-> e]) : e \in Entries(keys)}

\* Option<WindowsToml>, with its Option<WindowsSandboxModeToml> sandbox field
ModeOpt == {None} \cup {Some(m) : m \in WindowsSandboxModeToml}
WindowsOpt == {None} \cup {Some([sandbox |-> s]) : s \in ModeOpt}

\* Features::enabled
enabled(features, feature) == feature \in features

(* ------------------------------------------------------------- functions *)

\* the base flag tested before the elevated one
from_features_base_first(features) ==
    IF enabled(features, WindowsSandbox)
    THEN "RestrictedToken"
    ELSE IF enabled(features, WindowsSandboxElevated)
         THEN "Elevated"
         ELSE "Disabled"

\* the last arm falling back to the restricted token instead of Disabled
from_features_default_restricted(features) ==
    IF enabled(features, WindowsSandboxElevated)
    THEN "Elevated"
    ELSE "RestrictedToken"

from_features(features) ==
    IF enabled(features, WindowsSandboxElevated)
    THEN "Elevated"
    ELSE IF enabled(features, WindowsSandbox)
         THEN "RestrictedToken"
         ELSE "Disabled"

\* the feature flags consulted before the structured setting
from_config_flags_first(c) ==
    LET m == c.permissions.windows_sandbox_mode IN
    IF from_features(c.features) # "Disabled" THEN from_features(c.features)
    ELSE IF m = Some("Elevated") THEN "Elevated"
    ELSE IF m = Some("Unelevated") THEN "RestrictedToken"
    ELSE "Disabled"

\* the structured setting unwrapped without a None arm: a panic when absent
from_config_unwrap(c) ==
    LET m == c.permissions.windows_sandbox_mode IN
    IF ~m.some THEN "panic"
    ELSE IF m.val = "Elevated" THEN "Elevated" ELSE "RestrictedToken"

\* an Unelevated setting taken for "no sandbox"
from_config_unelevated_disabled(c) ==
    LET m == c.permissions.windows_sandbox_mode IN
    CASE m = Some("Elevated") -> "Elevated"
      [] m = Some("Unelevated") -> "Disabled"
      [] m = None -> from_features(c.features)

from_config(c) ==
    LET m == c.permissions.windows_sandbox_mode IN
    CASE m = Some("Elevated") -> "Elevated"
      [] m = Some("Unelevated") -> "RestrictedToken"
      [] m = None -> from_features(c.features)

\* entries.get(k).copied().unwrap_or(false)
get_or_false(entries, k) == IF k \in DOMAIN entries THEN entries[k] ELSE FALSE

\* the retired experimental key forgotten
legacy_windows_sandbox_mode_from_entries_no_experimental(entries) ==
    IF get_or_false(entries, key(WindowsSandboxElevated))
    THEN Some("Elevated")
    ELSE IF get_or_false(entries, key(WindowsSandbox))
         THEN Some("Unelevated")
         ELSE None

\* the base key tested before the elevated key
legacy_windows_sandbox_mode_from_entries_base_first(entries) ==
    IF get_or_false(entries, key(WindowsSandbox))
       \/ get_or_false(entries, ExperimentalKey)
    THEN Some("Unelevated")
    ELSE IF get_or_false(entries, key(WindowsSandboxElevated))
         THEN Some("Elevated")
         ELSE None

legacy_windows_sandbox_mode_from_entries(entries) ==
    IF get_or_false(entries, key(WindowsSandboxElevated))
    THEN Some("Elevated")
    ELSE IF get_or_false(entries, key(WindowsSandbox))
            \/ get_or_false(entries, ExperimentalKey)
         THEN Some("Unelevated")
         ELSE None

legacy_windows_sandbox_mode(features) ==
    IF ~features.some
    THEN None
    ELSE legacy_windows_sandbox_mode_from_entries(features.val.entries)

\* only the two current keys looked for
legacy_windows_sandbox_keys_present_no_experimental(features) ==
    IF ~features.some
    THEN FALSE
    ELSE LET entries == features.val.entries IN
         \/ key(WindowsSandboxElevated) \in DOMAIN entries
         \/ key(WindowsSandbox) \in DOMAIN entries

legacy_windows_sandbox_keys_present(features) ==
    IF ~features.some
    THEN FALSE
    ELSE LET entries == features.val.entries IN
         \/ key(WindowsSandboxElevated) \in DOMAIN entries
         \/ key(WindowsSandbox) \in DOMAIN entries
         \/ ExperimentalKey \in DOMAIN entries

\* Option::and_then(|windows| windows.sandbox)
sandbox_of(windows) == IF windows.some THEN windows.val.sandbox ELSE None

\* Option::or_else
or_else(a, b) == IF a.some THEN a ELSE b

\* the profile's structured setting consulted before its legacy flags
resolve_windows_sandbox_mode_setting_first(c, p) ==
    IF sandbox_of(p.windows).some
    THEN sandbox_of(p.windows)
    ELSE IF legacy_windows_sandbox_mode(p.features).some
         THEN legacy_windows_sandbox_mode(p.features)
         ELSE IF legacy_windows_sandbox_keys_present(p.features)
              THEN None
              ELSE or_else(sandbox_of(c.windows),
                           legacy_windows_sandbox_mode(c.features))

\* the document's setting consulted before the profile's
resolve_windows_sandbox_mode_document_first(c, p) ==
    IF legacy_windows_sandbox_mode(p.features).some
    THEN legacy_windows_sandbox_mode(p.features)
    ELSE IF legacy_windows_sandbox_keys_present(p.features)
         THEN None
         ELSE or_else(sandbox_of(c.windows),
                      or_else(sandbox_of(p.windows),
                              legacy_windows_sandbox_mode(c.features)))

resolve_windows_sandbox_mode(c, p) ==
    IF legacy_windows_sandbox_mode(p.features).some
    THEN legacy_windows_sandbox_mode(p.features)
    ELSE IF legacy_windows_sandbox_keys_present(p.features)
         THEN None
         ELSE or_else(sandbox_of(p.windows),
                      or_else(sandbox_of(c.windows),
                              legacy_windows_sandbox_mode(c.features)))

(* ------------------------------------------------------------------ state *)

\* a Config with no structured setting and nothing enabled
EmptyConfig == [permissions |-> [windows_sandbox_mode |-> None], features |-> {}]

\* a ConfigToml / ConfigProfile with neither [features] nor [windows]
EmptyFragment == [features |-> None, windows |-> None]

Configs ==
    [permissions : [windows_sandbox_mode : ModeOpt], features : SUBSET Feature]

\* ConfigToml and ConfigProfile, reduced to the fields the resolver reads
Fragments ==
    [features : FeaturesTomlOpt(LegacyKeys \cup OtherKeys),
     windows : WindowsOpt]

\* inputs of the level resolver: any merged Config
InitLevel ==
    /\ config \in Configs
    /\ cfg = EmptyFragment
    /\ profile = EmptyFragment

\* inputs of the mode resolver: any document with any profile
InitMode ==
    /\ config = EmptyConfig
    /\ cfg \in Fragments
    /\ profile \in Fragments

Init ==
    /\ pc = "start"
    /\ ret = "-"
    /\ (InitLevel \/ InitMode)

Return(op, value) ==
    /\ pc = "start"
    /\ pc' = op
    /\ ret' = value
    /\ UNCHANGED <<config, cfg, profile>>

FromConfig == Return("from_config", from_config(config))

FromFeatures == Return("from_features", from_features(config.features))

ResolveWindowsSandboxMode ==
    Return("resolve_windows_sandbox_mode", resolve_windows_sandbox_mode(cfg, profile))

LegacyWindowsSandboxMode ==
    Return("legacy_windows_sandbox_mode", legacy_windows_sandbox_mode(profile.features))

LegacyWindowsSandboxModeFromEntries ==
    /\ profile.features.some
    /\ Return("legacy_windows_sandbox_mode_from_entries",
              legacy_windows_sandbox_mode_from_entries(profile.features.val.entries))

LegacyWindowsSandboxKeysPresent ==
    Return("legacy_windows_sandbox_keys_present",
           legacy_windows_sandbox_keys_present(profile.features))

Next ==
    \/ FromConfig
    \/ FromFeatures
    \/ ResolveWindowsSandboxMode
    \/ LegacyWindowsSandboxMode
    \/ LegacyWindowsSandboxModeFromEntries
    \/ LegacyWindowsSandboxKeysPresent

Spec == Init /\ [][Next]_vars

(* ----------------------------------------------------------- properties *)

\* the inputs, read directly
Setting == config.permissions.windows_sandbox_mode
ElevatedFlag == WindowsSandboxElevated \in config.features
BaseFlag == WindowsSandbox \in config.features

\* key k is mapped to true in the optional feature mapping f
IsTrue(f, k) == f.some /\ k \in DOMAIN f.val.entries /\ f.val.entries[k]

\* key k occurs in the optional feature mapping f
HasKey(f, k) == f.some /\ k \in DOMAIN f.val.entries

\* the legacy mode the three keys of f stand for
LegacyOf(f) ==
    IF IsTrue(f, "windows_sandbox_elevated") THEN Some("Elevated")
    ELSE IF IsTrue(f, "windows_sandbox")
            \/ IsTrue(f, "enable_experimental_windows_sandbox")
         THEN Some("Unelevated")
         ELSE None

AnyLegacyKey(f) ==
    \/ HasKey(f, "windows_sandbox_elevated")
    \/ HasKey(f, "windows_sandbox")
    \/ HasKey(f, "enable_experimental_windows_sandbox")

\* the structured sandbox setting of a fragment
StructuredOf(fragment) ==
    IF fragment.windows.some /\ fragment.windows.val.sandbox.some
    THEN fragment.windows.val.sandbox
    ELSE None

Resolved == pc = "resolve_windows_sandbox_mode"

\* C1: with a structured setting present, from_config returns Elevated for
\* Elevated and RestrictedToken for Unelevated whatever the two flags are.
C1_StructuredSettingWins ==
    (pc = "from_config" /\ Setting.some) =>
        ret = (IF Setting.val = "Elevated" THEN "Elevated" ELSE "RestrictedToken")

C1_Witness ==
    /\ pc = "from_config"
    /\ Setting = Some("Unelevated")
    /\ ElevatedFlag
    /\ ret = "RestrictedToken"

\* C2: from_features is a priority chain: elevated flag gives Elevated,
\* otherwise the base flag gives RestrictedToken, otherwise Disabled.
C2_FlagPriority ==
    pc = "from_features" =>
        /\ ElevatedFlag => ret = "Elevated"
        /\ (~ElevatedFlag /\ BaseFlag) => ret = "RestrictedToken"
        /\ (~ElevatedFlag /\ ~BaseFlag) => ret = "Disabled"

C2_Witness ==
    /\ pc = "from_features"
    /\ ElevatedFlag
    /\ BaseFlag
    /\ ret = "Elevated"

\* C3: when the profile's flags yield a legacy mode, resolve returns that
\* mode whatever the structured settings and the document's flags are.
C3_ProfileLegacyFirst ==
    (Resolved /\ LegacyOf(profile.features).some) =>
        ret = LegacyOf(profile.features)

C3_Witness ==
    /\ Resolved
    /\ HasKey(profile.features, "windows_sandbox_elevated")
    /\ ~IsTrue(profile.features, "windows_sandbox_elevated")
    /\ IsTrue(profile.features, "windows_sandbox")
    /\ StructuredOf(profile) = Some("Elevated")
    /\ StructuredOf(cfg) = Some("Elevated")
    /\ ret = Some("Unelevated")

\* C4: opt-out guard: a profile mapping that holds a legacy key, none of
\* them true, makes resolve return None without falling through.
C4_OptOutGuard ==
    (Resolved /\ AnyLegacyKey(profile.features)
              /\ ~LegacyOf(profile.features).some) =>
        ret = None

C4_Witness ==
    /\ Resolved
    /\ profile.features.some
    /\ DOMAIN profile.features.val.entries = {"enable_experimental_windows_sandbox"}
    /\ StructuredOf(profile) = Some("Unelevated")
    /\ StructuredOf(cfg) = Some("Elevated")
    /\ IsTrue(cfg.features, "windows_sandbox")
    /\ ret = None

\* C5: with no legacy key in the profile's mapping, resolve returns the first
\* present of: profile setting, document setting, document legacy mode.
C5_FallbackOrder ==
    (Resolved /\ ~AnyLegacyKey(profile.features)) =>
        ret = (IF StructuredOf(profile).some THEN StructuredOf(profile)
               ELSE IF StructuredOf(cfg).some THEN StructuredOf(cfg)
               ELSE LegacyOf(cfg.features))

C5_Witness ==
    /\ Resolved
    /\ profile.features.some
    /\ DOMAIN profile.features.val.entries # {}
    /\ ~AnyLegacyKey(profile.features)
    /\ StructuredOf(profile) = Some("Unelevated")
    /\ StructuredOf(cfg) = Some("Elevated")
    /\ IsTrue(cfg.features, "windows_sandbox_elevated")
    /\ ret = Some("Unelevated")

\* C6: the legacy mode of a mapping treats a missing key as false; the
\* experimental key alone acts as the base key alone; no mapping gives None.
C6_LegacyModeOfEntries ==
    /\ pc = "legacy_windows_sandbox_mode_from_entries" =>
          /\ ret = LegacyOf(profile.features)
          /\ profile.features.val.entries
                 = ("enable_experimental_windows_sandbox" :> TRUE) =>
                ret = legacy_windows_sandbox_mode_from_entries(
                          "windows_sandbox" :> TRUE)
    /\ pc = "legacy_windows_sandbox_mode" => ret = LegacyOf(profile.features)

C6_Witness ==
    /\ pc = "legacy_windows_sandbox_mode_from_entries"
    /\ profile.features.val.entries = ("enable_experimental_windows_sandbox" :> TRUE)
    /\ ret = Some("Unelevated")

\* C7: totality: from_config always returns one of the three levels and
\* resolve always returns None, Some(Elevated) or Some(Unelevated).
C7_Totality ==
    /\ pc = "from_config" => ret \in WindowsSandboxLevel
    /\ Resolved => ret \in ModeOpt

C7_Witness ==
    /\ pc = "from_config"
    /\ ~Setting.some
    /\ ~ElevatedFlag
    /\ BaseFlag
    /\ ret = "RestrictedToken"

\* C8: empty everywhere: no setting and no flag entry in profile and document
\* resolves to None; no setting and nothing enabled gives Disabled.
C8_EmptyEverywhere ==
    /\ (/\ Resolved
        /\ \A fragment \in {profile, cfg} :
              /\ ~StructuredOf(fragment).some
              /\ fragment.features.some =>
                    DOMAIN fragment.features.val.entries = {})
       => ret = None
    /\ (pc = "from_config" /\ ~Setting.some /\ config.features = {})
       => ret = "Disabled"

C8_Witness ==
    /\ pc = "from_config"
    /\ ~Setting.some
    /\ config.features = {}
    /\ profile = EmptyFragment
    /\ cfg = EmptyFragment
    /\ ret = "Disabled"

\* strength order Disabled < RestrictedToken < Elevated
Strength(level) ==
    CASE level = "Disabled" -> 0
      [] level = "RestrictedToken" -> 1
      [] level = "Elevated" -> 2

\* C9: from_config is Disabled exactly when the setting is absent and neither
\* sandbox flag is enabled; enabling one more flag never weakens from_features.
C9_NoFailOpen ==
    /\ pc = "from_config" =>
          (ret = "Disabled" <=> (~Setting.some /\ ~ElevatedFlag /\ ~BaseFlag))
    /\ pc = "from_features" =>
          \A f \in Feature :
              Strength(from_features(config.features \cup {f})) >= Strength(ret)

C9_Witness ==
    /\ pc = "from_features"
    /\ ElevatedFlag
    /\ ~BaseFlag
    /\ ret = "Elevated"

\* the level a legacy mode stands for, by the rule of from_config
LevelOfMode(m) ==
    IF m = Some("Elevated") THEN "Elevated"
    ELSE IF m = Some("Unelevated") THEN "RestrictedToken"
    ELSE "Disabled"

\* the features a mapping enables, a missing key being disabled
FlagsOf(entries) ==
    {f \in {WindowsSandboxElevated, WindowsSandbox} :
        key(f) \in DOMAIN entries /\ entries[key(f)]}

\* C10: without the experimental key, the legacy mode of a mapping stands for
\* the level from_features gives for the same elevated and base flags.
C10_ResolversAgree ==
    (/\ pc = "legacy_windows_sandbox_mode_from_entries"
     /\ "enable_experimental_windows_sandbox"
            \notin DOMAIN profile.features.val.entries)
    => LevelOfMode(ret) = from_features(FlagsOf(profile.features.val.entries))

C10_Witness ==
    /\ pc = "legacy_windows_sandbox_mode_from_entries"
    /\ "enable_experimental_windows_sandbox"
           \notin DOMAIN profile.features.val.entries
    /\ IsTrue(profile.features, "windows_sandbox_elevated")
    /\ IsTrue(profile.features, "windows_sandbox")
    /\ ret = Some("Elevated")

====
